---- MODULE Spec2Model ----
(***************************************************************************)
(* The lead scoring and qualification pipeline of the SDR backend:         *)
(* LeadService (lead_service.py) on top of GrokService (grok_service.py),  *)
(* the lead / criterion / message tables (models.py) and the routers that  *)
(* map service exceptions to HTTP statuses (routers/leads.py, scoring.py). *)
(*                                                                         *)
(* Numbers are fixed-point with one decimal: the integer n stands for the  *)
(* float n / 10, so 5.0 is 50 and a qualification_score of 80 is 800.      *)
(***************************************************************************)
EXTENDS Integers, Sequences, FiniteSets, TLC

\* ------------------------------------------------------------------ bounds
MaxLeads == 2
MaxCriteria == 2
MaxMessages == 1
MaxHandlers == 2
MaxCases == 2
MaxEvaluations == 2
MaxLen == 3
MaxInteractions == 2

LeadIds == 1..MaxLeads
Handlers == 1..MaxHandlers
CritIds == 1..MaxCriteria

\* The default criteria of create_default_scoring_criteria (weights in
\* tenths: 3.0 is 30).
default_criteria ==
    <<[name |-> "Company Size",
       description |-> "Score based on company size and potential budget",
       weight |-> 30, criteria_rules |-> "enterprise"],
      [name |-> "Job Title Authority",
       description |-> "Score based on decision-making authority",
       weight |-> 25, criteria_rules |-> "c_level"],
      [name |-> "Industry Fit",
       description |-> "Score based on industry alignment with our solution",
       weight |-> 20, criteria_rules |-> "technology"],
      [name |-> "Engagement Level",
       description |-> "Score based on lead engagement and responsiveness",
       weight |-> 15, criteria_rules |-> "high"]>>

\* The ids the scoring_criteria table can hold: those a client creates and
\* those of the defaults.
CriteriaRows == 1..(MaxCriteria + Len(default_criteria))

\* ------------------------------------------------------------- JSON values
\* A decoded JSON value (or the absence of a key): t is its Python type,
\* n a number or a list length, s a string (or a one-element list's element),
\* m a dict's items.
EmptyMap == [x \in {} |-> 0]
JAbsent == [t |-> "absent", n |-> 0, s |-> "", m |-> EmptyMap]
JNull == [t |-> "null", n |-> 0, s |-> "", m |-> EmptyMap]
JNum(k) == [t |-> "num", n |-> k, s |-> "", m |-> EmptyMap]
JStr(x) == [t |-> "str", n |-> 0, s |-> x, m |-> EmptyMap]
JList0 == [t |-> "list", n |-> 0, s |-> "", m |-> EmptyMap]
JList1(x) == [t |-> "list", n |-> 1, s |-> x, m |-> EmptyMap]
JDict(f) == [t |-> "dict", n |-> 0, s |-> "", m |-> f]

\* Python truthiness of dict.get(key): None for an absent key.
Truthy(v) ==
    CASE v.t = "absent" -> FALSE
      [] v.t = "null" -> FALSE
      [] v.t = "num" -> v.n # 0
      [] v.t = "str" -> v.s # ""
      [] v.t = "list" -> v.n # 0
      [] v.t = "dict" -> v.m # EmptyMap

\* Python can hash the value (a dict key lookup raises TypeError otherwise).
Hashable(v) == v.t \notin {"list", "dict"}

Keys ==
    {"qualification_score", "qualification_reasons", "recommended_stage",
     "next_actions", "pain_points",
     "total_score", "criteria_scores", "recommendations"}

NoKeys == [k \in Keys |-> JAbsent]

\* dict.get(key, default): the default only when the key is absent.
GetDefault(obj, key, default) ==
    IF obj[key].t = "absent" THEN default ELSE obj[key]

\* ------------------------------------------------------------------ enums
PipelineStage ==
    {"new", "qualified", "contacted", "meeting_scheduled", "proposal_sent",
     "negotiation", "closed_won", "closed_lost"}

\* The three stages a qualification may recommend (stage_mapping).
stage_mapping ==
    [x \in {"new", "qualified", "contacted"} |-> x]

\* ------------------------------------------------------------------- state
VARIABLES
    leads,      \* the leads table: id -> row ("exists" FALSE: no such row)
    criteria,   \* the scoring_criteria table: id -> row
    messages,   \* the messages table, in insertion order
    last,       \* the request being served: operation, inputs, outcome, return
    inflight,   \* the Qualify/Score handlers suspended at their completion call
    evaluations,\* the evaluations table, in insertion order
    run,        \* the evaluation batch being run
    sim,        \* a call of the similarity scorer: arguments and value
    interactions\* the interactions table, in insertion order

vars == <<leads, criteria, messages, last, inflight, evaluations, run, sim,
          interactions>>

\* What the requests of the lead and criterion endpoints leave alone.
harness == <<inflight, evaluations, run, sim>>


\* The nullable columns of a lead the prompts render.
OptionalFields == {"job_title", "industry", "company_size", "company_website"}

\* NULL in a column.
None == "None"

\* An email address: k stands for lead<k>@example.com, 0 for no address.
Emails == 1..MaxLeads

NoLead ==
    [exists |-> FALSE, email |-> 0, pipeline_stage |-> "new", lead_score |-> 0,
     job_title |-> JNull, industry |-> JNull,
     company_size |-> JNull, company_website |-> JNull]
NoCriterion ==
    [exists |-> FALSE, name |-> "", description |-> "", weight |-> 0,
     criteria_rules |-> "", is_active |-> 0]

\* Column defaults of a new row: lead_score 0.0, pipeline_stage NEW.
NewLead(lead) ==
    [exists |-> TRUE, email |-> lead.email,
     pipeline_stage |-> "new", lead_score |-> 0,
     job_title |-> lead.job_title, industry |-> lead.industry,
     company_size |-> lead.company_size, company_website |-> lead.company_website]

\* ------------------------------------------------------ completion client
\* What generate_completion yields: a GrokResponse whose content is a text
\* (fmt "prose": not JSON; "object": a JSON object, obj its members;
\* "other": a JSON list, number, string or null; pad: surrounded by
\* whitespace), or one of its three exceptions.
Text(fmt, obj, pad) == [fmt |-> fmt, obj |-> obj, pad |-> pad]
Prose == Text("prose", NoKeys, FALSE)

Success(text) == [ok |-> TRUE, content |-> text, error |-> ""]
Failure(msg) == [ok |-> FALSE, content |-> Prose, error |-> msg]

\* The exception each except-clause of generate_completion raises.
completion_errors ==
    {"Grok API error: 500", "Grok API error: 429",
     "Failed to connect to Grok API", "Unexpected error with Grok API"}

\* json.loads: raises JSONDecodeError on prose, else the decoded value.
\* Surrounding whitespace is insignificant.
json_loads(text) ==
    [decoded |-> text.fmt # "prose", is_dict |-> text.fmt = "object", obj |-> text.obj]

\* str.strip on the completion text.
strip(text) == [text EXCEPT !.pad = FALSE]

\* ---------------------------------------------------- response interpreter
_parse_qualification_text ==
    [NoKeys EXCEPT
        !["qualification_score"] = JNum(500),
        !["qualification_reasons"] = JList1("Analysis pending"),
        !["recommended_stage"] = JStr("new"),
        !["next_actions"] = JList1("Manual review required"),
        !["pain_points"] = JList1("To be determined")]

RECURSIVE SumValues(_)
SumValues(f) ==
    IF DOMAIN f = {} THEN 0
    ELSE LET k == CHOOSE x \in DOMAIN f : TRUE
         IN f[k] + SumValues([x \in DOMAIN f \ {k} |-> f[x]])

\* The names of a criteria_data list.
Names(scoring_criteria) ==
    {scoring_criteria[i].name : i \in 1..Len(scoring_criteria)}

\* {criteria['name']: 5.0 for criteria in scoring_criteria}
fallback_criteria_scores(scoring_criteria) ==
    [nm \in Names(scoring_criteria) |-> 50]

\* fallback_total_score without the division by the number of entries.
fallback_total_score_sum(criteria_scores) ==
    IF DOMAIN criteria_scores # {}
    THEN SumValues(criteria_scores)
    ELSE 0

\* sum(criteria_scores.values()) / len(criteria_scores) if criteria_scores else 0.0
fallback_total_score(criteria_scores) ==
    IF DOMAIN criteria_scores # {}
    THEN SumValues(criteria_scores) \div Cardinality(DOMAIN criteria_scores)
    ELSE 0

_parse_scoring_text(scoring_criteria) ==
    LET criteria_scores == fallback_criteria_scores(scoring_criteria)
    IN [NoKeys EXCEPT
           !["total_score"] = JNum(fallback_total_score(criteria_scores)),
           !["criteria_scores"] = JDict(criteria_scores),
           !["recommendations"] = JList1("Manual review required")]

\* GrokService.qualify_lead after the completion returned: the decoded JSON
\* value whatever its type, the fallback payload on JSONDecodeError.
GrokService_qualify_lead(text) ==
    LET result == json_loads(text)
    IN IF result.decoded
       THEN [is_dict |-> result.is_dict, obj |-> result.obj]
       ELSE [is_dict |-> TRUE, obj |-> _parse_qualification_text]

\* GrokService.score_lead after the completion returned.
GrokService_score_lead(text, scoring_criteria) ==
    LET result == json_loads(text)
    IN IF result.decoded
       THEN [is_dict |-> result.is_dict, obj |-> result.obj]
       ELSE [is_dict |-> TRUE, obj |-> _parse_scoring_text(scoring_criteria)]

\* generate_personalized_message returning the content as it came.
GrokService_generate_personalized_message_raw(text) == text

\* GrokService.generate_personalized_message after the completion returned.
GrokService_generate_personalized_message(text) == strip(text)

\* ----------------------------------------------------------- prompt builder
\* lead_data: every key is set, a column that is NULL to None; the columns
\* that cannot be NULL stand for themselves.
LeadDataKeys ==
    {"first_name", "last_name", "email", "company_name"} \cup OptionalFields

build_lead_data(lead) ==
    [k \in LeadDataKeys |-> IF k \in OptionalFields THEN lead[k] ELSE JStr(k)]

\* dict.get(key, default): the default only when the key is not set.
dict_get(d, key, default) ==
    IF key \in DOMAIN d THEN d[key] ELSE default

\* What an f-string renders for a value.
format(v) == IF v.t = "null" THEN "None" ELSE v.s

\* The default each prompt gives lead_data.get for a key.
slot_default(key) == IF key \in OptionalFields THEN "N/A" ELSE ""

\* The lead slots of the qualification and scoring prompts, by key.
_build_qualification_prompt(data) ==
    [k \in LeadDataKeys |-> format(dict_get(data, k, JStr(slot_default(k))))]

_build_scoring_prompt(data) ==
    [k \in LeadDataKeys |-> format(dict_get(data, k, JStr(slot_default(k))))]

\* The lead slots of the message prompt: it has none for the email.
_build_message_prompt(data) ==
    [k \in LeadDataKeys \ {"email"} |->
        format(dict_get(data, k, JStr(slot_default(k))))]

build_prompt(op, lead) ==
    CASE op = "qualify_lead" -> _build_qualification_prompt(build_lead_data(lead))
      [] op = "score_lead" -> _build_scoring_prompt(build_lead_data(lead))
      [] OTHER -> _build_message_prompt(build_lead_data(lead))

\* ------------------------------------------------------------ lead service
\* The record of one request: what was asked, the lead row the service read
\* (before), whether a completion request was dispatched (calls), the
\* exception the service raised ("" when it returned) with its message, the
\* completion it was given, what it returned, and for score_lead the ids of
\* the criteria put in the prompt.
NoReturn == [lead_id |-> 0, obj |-> NoKeys]
NoFilter == [given |-> FALSE, ids |-> {}]

Request(op, lead_id, criteria_ids) ==
    [op |-> op, lead_id |-> lead_id, criteria_ids |-> criteria_ids,
     before |-> NoLead, calls |-> 0, raised |-> "", detail |-> "",
     resp |-> Failure(""), prompt |-> EmptyMap,
     selected |-> << >>, ret |-> NoReturn]

\* No request is being served.
Idle == Request("idle", 0, NoFilter)

Read(req, lead) == [req EXCEPT !.before = lead]
Raise(req, exc, msg) == [req EXCEPT !.raised = exc, !.detail = msg]
Dispatch(req, resp) ==
    [req EXCEPT !.calls = @ + 1, !.resp = resp,
                !.prompt = build_prompt(req.op, req.before)]

\* The routers' mapping of the service outcome to an HTTP status.
http_status(req) ==
    CASE req.raised = "" -> 200
      [] req.raised \in {"ValueError", "HTTPException"} -> 404
      [] OTHER -> 500

\* The detail of the HTTPException the lead routers raise: str(e) for a
\* ValueError, "Error <doing>: " and str(e) for any other exception; the
\* application's handler answers what no router catches.
http_detail(req) ==
    CASE req.raised = "" -> [prefix |-> "", msg |-> ""]
      [] req.raised \in {"ValueError", "HTTPException"} ->
            [prefix |-> "", msg |-> req.detail]
      [] req.op = "qualify_lead" ->
            [prefix |-> "Error qualifying lead: ", msg |-> req.detail]
      [] req.op = "score_lead" ->
            [prefix |-> "Error scoring lead: ", msg |-> req.detail]
      [] req.op = "generate_message" ->
            [prefix |-> "Error generating message: ", msg |-> req.detail]
      [] OTHER -> [prefix |-> "Internal server error", msg |-> ""]

\* get_lead without its id filter: the first row of the table when the id
\* has none.
get_lead_unfiltered(lead_id) ==
    IF leads[lead_id].exists \/ \A i \in LeadIds : ~leads[i].exists
    THEN leads[lead_id]
    ELSE leads[CHOOSE i \in LeadIds : leads[i].exists]

\* LeadService.get_lead: the row, or None.
get_lead(lead_id) == leads[lead_id]

\* The stage assignment of qualify_lead.
qualify_stage(lead, qualification) ==
    LET v == qualification["recommended_stage"]
    IN IF Truthy(v) /\ v.t = "str" /\ v.s \in DOMAIN stage_mapping
       THEN [lead EXCEPT !.pipeline_stage = stage_mapping[v.s]]
       ELSE lead

\* qualify_score without the conversion to the 0-10 scale.
qualify_score_unscaled(lead, qualification) ==
    LET v == qualification["qualification_score"]
    IN IF Truthy(v)
       THEN [lead EXCEPT !.lead_score = v.n]
       ELSE lead

\* The score assignment of qualify_lead: / 10.0 converts to the 0-10 scale.
qualify_score(lead, qualification) ==
    LET v == qualification["qualification_score"]
    IN IF Truthy(v)
       THEN [lead EXCEPT !.lead_score = v.n \div 10]
       ELSE lead

\* The exception the update block of qualify_lead raises, "" for none:
\* .get on a value that is no dict, a dict lookup with an unhashable key,
\* a division of a value that is no number.
qualify_raises(result) ==
    CASE ~result.is_dict -> "AttributeError"
      [] /\ Truthy(result.obj["recommended_stage"])
         /\ ~Hashable(result.obj["recommended_stage"]) -> "TypeError"
      [] /\ Truthy(result.obj["qualification_score"])
         /\ result.obj["qualification_score"].t # "num" -> "TypeError"
      [] OTHER -> ""

LeadService_qualify_lead(lead_id, resp) ==
    /\ last = Idle
    /\ UNCHANGED <<harness, interactions>>
    /\ LET lead == get_lead(lead_id)
           req == Read(Request("qualify_lead", lead_id, NoFilter), lead)
       IN IF ~lead.exists
          THEN /\ last' = Raise(req, "ValueError", "Lead not found")
               /\ UNCHANGED <<leads, criteria, messages>>
          ELSE IF ~resp.ok
          THEN /\ last' = Raise(Dispatch(req, resp), "Exception", resp.error)
               /\ UNCHANGED <<leads, criteria, messages>>
          ELSE LET qualification == GrokService_qualify_lead(resp.content)
                   exc == qualify_raises(qualification)
               IN IF exc # ""
                  THEN /\ last' = Raise(Dispatch(req, resp), exc, "")
                       /\ UNCHANGED <<leads, criteria, messages>>
                  ELSE /\ leads' = [leads EXCEPT ![lead_id] =
                              qualify_score(qualify_stage(lead, qualification.obj),
                                            qualification.obj)]
                       /\ last' = [Dispatch(req, resp) EXCEPT
                              !.ret = [lead_id |-> 0, obj |-> qualification.obj]]
                       /\ UNCHANGED <<criteria, messages>>

\* The elements of a set of ids in ascending order.
RECURSIVE Ascending(_)
Ascending(S) ==
    IF S = {} THEN << >>
    ELSE LET lo == CHOOSE x \in S : \A y \in S : x <= y
         IN <<lo>> \o Ascending(S \ {lo})

\* select_criteria without the is_active filter.
select_criteria_inactive_too(criteria_ids) ==
    LET rows == {c \in CriteriaRows : criteria[c].exists}
    IN Ascending(IF criteria_ids.given /\ criteria_ids.ids # {}
                 THEN rows \cap criteria_ids.ids
                 ELSE rows)

\* The criteria query of score_lead: the active rows, restricted to
\* criteria_ids when that list is truthy.
select_criteria(criteria_ids) ==
    LET active == {c \in CriteriaRows : criteria[c].exists /\ criteria[c].is_active = 1}
    IN Ascending(IF criteria_ids.given /\ criteria_ids.ids # {}
                 THEN active \cap criteria_ids.ids
                 ELSE active)

\* criteria_data: name and weight of each selected row.
criteria_data(selected) ==
    [i \in 1..Len(selected) |->
        [name |-> criteria[selected[i]].name, weight |-> criteria[selected[i]].weight]]

\* score_update moving the lead to the qualified stage as well.
score_update_staging(lead, scoring_result) ==
    IF Truthy(scoring_result["total_score"])
    THEN [lead EXCEPT !.lead_score = scoring_result["total_score"].n,
                      !.pipeline_stage = "qualified"]
    ELSE lead

\* The score assignment of score_lead (no rescaling).
score_update(lead, scoring_result) ==
    IF Truthy(scoring_result["total_score"])
    THEN [lead EXCEPT !.lead_score = scoring_result["total_score"].n]
    ELSE lead

\* The record score_lead returns.
score_return(lead_id, scoring_result) ==
    [lead_id |-> lead_id,
     obj |-> [NoKeys EXCEPT
        !["total_score"] = GetDefault(scoring_result, "total_score", JNum(0)),
        !["criteria_scores"] = GetDefault(scoring_result, "criteria_scores", JDict(EmptyMap)),
        !["recommendations"] = GetDefault(scoring_result, "recommendations", JList0)]]

LeadService_score_lead(lead_id, criteria_ids, resp) ==
    /\ last = Idle
    /\ UNCHANGED <<harness, interactions>>
    /\ LET lead == get_lead(lead_id)
           req == Read(Request("score_lead", lead_id, criteria_ids), lead)
           selected == select_criteria(criteria_ids)
           sent == [Dispatch(req, resp) EXCEPT !.selected = selected]
       IN IF ~lead.exists
          THEN /\ last' = Raise(req, "ValueError", "Lead not found")
               /\ UNCHANGED <<leads, criteria, messages>>
          ELSE IF selected = << >>
          THEN /\ last' = Raise(req, "ValueError", "No active scoring criteria found")
               /\ UNCHANGED <<leads, criteria, messages>>
          ELSE IF ~resp.ok
          THEN /\ last' = Raise(sent, "Exception", resp.error)
               /\ UNCHANGED <<leads, criteria, messages>>
          ELSE LET scoring_result ==
                       GrokService_score_lead(resp.content, criteria_data(selected))
               IN IF ~scoring_result.is_dict
                  THEN /\ last' = Raise(sent, "AttributeError", "")
                       /\ UNCHANGED <<leads, criteria, messages>>
                  ELSE /\ leads' = [leads EXCEPT ![lead_id] =
                              score_update(lead, scoring_result.obj)]
                       /\ last' = [sent EXCEPT
                              !.ret = score_return(lead_id, scoring_result.obj)]
                       /\ UNCHANGED <<criteria, messages>>

LeadService_generate_message(lead_id, resp) ==
    /\ last = Idle
    /\ UNCHANGED <<harness, interactions>>
    /\ LET lead == get_lead(lead_id)
           req == Read(Request("generate_message", lead_id, NoFilter), lead)
       IN IF ~lead.exists
          THEN /\ last' = Raise(req, "ValueError", "Lead not found")
               /\ UNCHANGED <<leads, criteria, messages>>
          ELSE IF ~resp.ok
          THEN /\ last' = Raise(Dispatch(req, resp), "Exception", resp.error)
               /\ UNCHANGED <<leads, criteria, messages>>
          ELSE /\ Len(messages) < MaxMessages
               /\ messages' = Append(messages,
                      [lead_id |-> lead_id,
                       content |-> GrokService_generate_personalized_message(resp.content)])
               /\ last' = Dispatch(req, resp)
               /\ UNCHANGED <<leads, criteria>>

\* ------------------------------------------------- concurrent lead service
\* qualify_lead and score_lead are coroutines: each runs from its start to
\* the await of the completion call, and from the completion's return to its
\* end, without interleaving; other handlers run while it awaits.  A handler
\* holds its own Session, so the Lead object it loaded keeps the column
\* values of the time it was read.
\*   pc: "free", "awaiting" (completion call in flight), "returned"
\*       (completion back, handler not yet resumed), "done" (handler ended)
\*   req: the request record; req.before is the Lead object as loaded
\*   lead: the Lead object after the handler's assignments
\*   refreshed: the row read back by db.refresh after the commit
\*   committed: db.commit() was reached
\*   raced: another handler committed a score for the same lead while this
\*       one was suspended
Free ==
    [pc |-> "free", req |-> Idle, lead |-> NoLead, refreshed |-> NoLead,
     committed |-> FALSE, raced |-> FALSE]

Suspended(h) == inflight[h].pc \in {"awaiting", "returned"}

\* Start of qualify_lead up to the await: the lead is loaded, the prompt
\* built, the completion request sent.
qualify_lead_start(h, lead_id) ==
    /\ inflight[h].pc = "free"
    /\ get_lead(lead_id).exists
    /\ inflight' = [inflight EXCEPT ![h] =
           [Free EXCEPT
              !.pc = "awaiting",
              !.req = Read(Request("qualify_lead", lead_id, NoFilter),
                           get_lead(lead_id))]]
    /\ UNCHANGED <<leads, criteria, messages, last, evaluations, run, sim, interactions>>

\* Start of score_lead up to the await.
score_lead_start(h, lead_id, criteria_ids) ==
    /\ inflight[h].pc = "free"
    /\ get_lead(lead_id).exists
    /\ select_criteria(criteria_ids) # << >>
    /\ inflight' = [inflight EXCEPT ![h] =
           [Free EXCEPT
              !.pc = "awaiting",
              !.req = [Read(Request("score_lead", lead_id, criteria_ids),
                            get_lead(lead_id))
                       EXCEPT !.selected = select_criteria(criteria_ids)]]]
    /\ UNCHANGED <<leads, criteria, messages, last, evaluations, run, sim, interactions>>

\* The completion call of a suspended handler returns or raises.  An
\* exception propagates out of the handler: nothing was assigned, nothing
\* is committed.
completion_returns(h, resp) ==
    /\ inflight[h].pc = "awaiting"
    /\ inflight' = [inflight EXCEPT ![h] =
           IF resp.ok
           THEN [@ EXCEPT !.pc = "returned", !.req = Dispatch(@, resp)]
           ELSE [@ EXCEPT !.pc = "done",
                          !.req = Raise(Dispatch(@, resp), "Exception", resp.error)]]
    /\ UNCHANGED <<leads, criteria, messages, last, evaluations, run, sim, interactions>>

\* The UPDATE a Session flushes for a loaded object: only the columns whose
\* value differs from the value loaded are set, on the row as it is now.
flush(row, loaded, object) ==
    [row EXCEPT
        !.pipeline_stage = IF object.pipeline_stage # loaded.pipeline_stage
                           THEN object.pipeline_stage ELSE @,
        !.lead_score = IF object.lead_score # loaded.lead_score
                       THEN object.lead_score ELSE @]

\* The other suspended handlers of the same lead learn nothing of a commit;
\* the record notes that one happened.
overtaken(h, lead_id, scored) ==
    [g \in Handlers |->
        IF g # h /\ Suspended(g) /\ inflight[g].req.lead_id = lead_id /\ scored
        THEN [inflight[g] EXCEPT !.raced = TRUE]
        ELSE inflight[g]]

\* qualify_lead from the completion's return to its end.
qualify_lead_resume(h) ==
    /\ inflight[h].pc = "returned"
    /\ inflight[h].req.op = "qualify_lead"
    /\ LET req == inflight[h].req
           lead_id == req.lead_id
           qualification == GrokService_qualify_lead(req.resp.content)
           exc == qualify_raises(qualification)
           object == qualify_score(qualify_stage(req.before, qualification.obj),
                                   qualification.obj)
           row == flush(leads[lead_id], req.before, object)
       IN IF exc # ""
          THEN /\ inflight' = [inflight EXCEPT ![h] =
                      [@ EXCEPT !.pc = "done", !.req = Raise(req, exc, "")]]
               /\ UNCHANGED leads
          ELSE /\ leads' = [leads EXCEPT ![lead_id] = row]
               /\ inflight' = [overtaken(h, lead_id,
                                         Truthy(qualification.obj["qualification_score"]))
                      EXCEPT ![h] =
                      [@ EXCEPT !.pc = "done", !.lead = object, !.refreshed = row,
                                !.committed = TRUE,
                                !.req = [req EXCEPT !.ret =
                                    [lead_id |-> 0, obj |-> qualification.obj]]]]
    /\ UNCHANGED <<criteria, messages, last, evaluations, run, sim, interactions>>

\* score_lead from the completion's return to its end.
score_lead_resume(h) ==
    /\ inflight[h].pc = "returned"
    /\ inflight[h].req.op = "score_lead"
    /\ LET req == inflight[h].req
           lead_id == req.lead_id
           scoring_result ==
               GrokService_score_lead(req.resp.content, criteria_data(req.selected))
           object == score_update(req.before, scoring_result.obj)
           commits == Truthy(scoring_result.obj["total_score"])
           row == IF commits THEN flush(leads[lead_id], req.before, object)
                  ELSE leads[lead_id]
       IN IF ~scoring_result.is_dict
          THEN /\ inflight' = [inflight EXCEPT ![h] =
                      [@ EXCEPT !.pc = "done",
                                !.req = Raise(req, "AttributeError", "")]]
               /\ UNCHANGED leads
          ELSE /\ leads' = [leads EXCEPT ![lead_id] = row]
               /\ inflight' = [overtaken(h, lead_id, commits) EXCEPT ![h] =
                      [@ EXCEPT !.pc = "done", !.lead = object,
                                !.refreshed = IF commits THEN row ELSE object,
                                !.committed = commits,
                                !.req = [req EXCEPT !.ret =
                                    score_return(lead_id, scoring_result.obj)]]]
    /\ UNCHANGED <<criteria, messages, last, evaluations, run, sim, interactions>>

\* Start of generate_message up to the await: the lead is loaded, the
\* prompt built, the completion request sent.
generate_message_start(h, lead_id) ==
    /\ inflight[h].pc = "free"
    /\ get_lead(lead_id).exists
    /\ inflight' = [inflight EXCEPT ![h] =
           [Free EXCEPT
              !.pc = "awaiting",
              !.req = Read(Request("generate_message", lead_id, NoFilter),
                           get_lead(lead_id))]]
    /\ UNCHANGED <<leads, criteria, messages, last, evaluations, run, sim, interactions>>

\* generate_message from the completion's return to its end: the Message
\* is inserted under the lead_id of the request and committed.  The foreign
\* key messages.lead_id -> leads.id is enforced or not by the database:
\* SQLite, the database of the default database_url, enforces none unless
\* the connection turns the pragma on, and no connection does; PostgreSQL
\* enforces it.
generate_message_resume(h) ==
    /\ inflight[h].pc = "returned"
    /\ inflight[h].req.op = "generate_message"
    /\ LET req == inflight[h].req
           lead_id == req.lead_id
           message == [lead_id |-> lead_id,
                       content |-> GrokService_generate_personalized_message(
                                       req.resp.content)]
       IN \E enforced \in BOOLEAN :
            IF enforced /\ ~leads[lead_id].exists
            THEN /\ inflight' = [inflight EXCEPT ![h] =
                        [@ EXCEPT !.pc = "done",
                                  !.req = Raise(req, "IntegrityError",
                                                "FOREIGN KEY constraint failed")]]
                 /\ UNCHANGED messages
            ELSE /\ Len(messages) < MaxMessages
                 /\ messages' = Append(messages, message)
                 /\ inflight' = [inflight EXCEPT ![h] =
                        [@ EXCEPT !.pc = "done", !.committed = TRUE]]
    /\ UNCHANGED <<leads, criteria, last, evaluations, run, sim, interactions>>

\* get_db for a concurrent handler: its session is closed.
handler_closed(h) ==
    /\ inflight[h].pc = "done"
    /\ inflight' = [inflight EXCEPT ![h] = Free]
    /\ UNCHANGED <<leads, criteria, messages, last, evaluations, run, sim, interactions>>

\* The process dies: every suspended handler is gone with its session, the
\* tables are what was committed.
crash ==
    /\ \E h \in Handlers : Suspended(h)
    /\ inflight' = [h \in Handlers |-> Free]
    /\ UNCHANGED <<leads, criteria, messages, last, evaluations, run, sim, interactions>>

\* ------------------------------------------------------- similarity scorer
\* A str is a sequence of characters; a score is the exact fraction num/den.
Chars == {"a", "A", "b", " "}

Fraction(num, den) == [num |-> num, den |-> den]
Geq(x, y) == x.num * y.den >= y.num * x.den
Same(x, y) == x.num * y.den = y.num * x.den

str_lower(str) ==
    [i \in 1..Len(str) |-> IF str[i] = "A" THEN "a" ELSE str[i]]

RECURSIVE lstrip(_)
lstrip(str) ==
    IF str # << >> /\ Head(str) = " " THEN lstrip(Tail(str)) ELSE str

RECURSIVE rstrip(_)
rstrip(str) ==
    IF str # << >> /\ str[Len(str)] = " "
    THEN rstrip(SubSeq(str, 1, Len(str) - 1))
    ELSE str

str_strip(str) == rstrip(lstrip(str))

\* str.split(): the set of the maximal runs of non-whitespace characters
\* (word is the run being read).
RECURSIVE split_words(_, _)
split_words(str, word) ==
    IF str = << >>
    THEN IF word = << >> THEN {} ELSE {word}
    ELSE IF Head(str) = " "
         THEN (IF word = << >> THEN {} ELSE {word}) \cup split_words(Tail(str), << >>)
         ELSE split_words(Tail(str), Append(word, Head(str)))

str_split(str) == split_words(str, << >>)

Min(a, b) == IF a <= b THEN a ELSE b
Max(a, b) == IF a >= b THEN a ELSE b

\* final_score with the two terms weighted alike.
final_score_unweighted(common, expected_len, shorter, longer) ==
    LET score == Fraction(5 * common * longer + 5 * shorter * expected_len,
                          10 * expected_len * longer)
    IN IF Geq(score, Fraction(1, 1)) THEN Fraction(1, 1) ELSE score

\* similarity * 0.8 + length_ratio * 0.2, clamped by min(final_score, 1.0).
final_score(common, expected_len, shorter, longer) ==
    LET score == Fraction(8 * common * longer + 2 * shorter * expected_len,
                          10 * expected_len * longer)
    IN IF Geq(score, Fraction(1, 1)) THEN Fraction(1, 1) ELSE score

\* _calculate_similarity_score: the value returned, or the exception of a
\* division by zero.
_calculate_similarity_score(expected, actual) ==
    LET expected_lower == str_strip(str_lower(expected))
        actual_lower == str_strip(str_lower(actual))
        expected_words == str_split(expected_lower)
        actual_words == str_split(actual_lower)
        common_words == expected_words \cap actual_words
    IN IF expected_lower = actual_lower
       THEN [raised |-> "", value |-> Fraction(1, 1)]
       ELSE IF Cardinality(expected_words) = 0
       THEN [raised |-> "", value |-> Fraction(0, 1)]
       ELSE IF Max(Len(actual), Len(expected)) = 0
       THEN [raised |-> "ZeroDivisionError", value |-> Fraction(0, 1)]
       ELSE [raised |-> "",
             value |-> final_score(Cardinality(common_words),
                                   Cardinality(expected_words),
                                   Min(Len(actual), Len(expected)),
                                   Max(Len(actual), Len(expected)))]

NoCall ==
    [expected |-> << >>, actual |-> << >>, called |-> FALSE,
     result |-> [raised |-> "", value |-> Fraction(0, 1)]]

\* One call of the scorer on the arguments drawn.
calculate_similarity_score ==
    /\ ~sim.called
    /\ sim' = [sim EXCEPT !.called = TRUE,
                          !.result = _calculate_similarity_score(sim.expected, sim.actual)]
    /\ UNCHANGED <<leads, criteria, messages, last, inflight, evaluations, run, interactions>>

\* ------------------------------------------------------ evaluation harness
\* An Optional[str] and an Optional[float]: None, or a value.
NoStr == [none |-> TRUE, text |-> << >>]
Str(text) == [none |-> FALSE, text |-> text]
NoScore == [none |-> TRUE, value |-> Fraction(0, 1)]
Score(value) == [none |-> FALSE, value |-> value]
Flag(value) == [none |-> FALSE, value |-> value]

\* The completion of an evaluation case: content is a str.
Completed_(content) == [ok |-> TRUE, content |-> content, error |-> ""]
Failed_(msg) == [ok |-> FALSE, content |-> << >>, error |-> msg]

\* The pass threshold of run_evaluation.
threshold == Fraction(7, 10)

\* passes with a strict comparison.
passes_strictly(score) == ~Geq(threshold, score)

\* passed = score >= 0.7
passes(score) == Geq(score, threshold)

\* The exception the try block raises once the completion returned, "" for
\* none: the scorer's, when it is called.
try_raises(test_case, actual_output) ==
    LET expected == test_case.expected_output
    IN IF ~expected.none /\ expected.text # << >>
       THEN _calculate_similarity_score(expected.text, actual_output).raised
       ELSE ""

\* The Evaluation built in the try block: the completion returned.
evaluation_record(test_case, actual_output) ==
    LET expected == test_case.expected_output
        supplied == ~expected.none /\ expected.text # << >>
        score == IF supplied
                 THEN Score(_calculate_similarity_score(expected.text, actual_output).value)
                 ELSE NoScore
        passed == supplied /\ passes(score.value)
    IN [test_name |-> test_case.test_name,
        test_input |-> test_case.test_input,
        expected_output |-> expected,
        actual_output |-> [marker |-> "", content |-> actual_output, error |-> ""],
        score |-> score,
        passed |-> Flag(IF passed THEN 1 ELSE 0)]

\* failed_evaluation_record with the score left None.
failed_evaluation_record_unscored(test_case, msg) ==
    [test_name |-> test_case.test_name,
     test_input |-> test_case.test_input,
     expected_output |-> test_case.expected_output,
     actual_output |-> [marker |-> "ERROR: ", content |-> << >>, error |-> msg],
     score |-> NoScore,
     passed |-> Flag(0)]

\* The Evaluation built in the except block: "ERROR: " and the message.
failed_evaluation_record(test_case, msg) ==
    [test_name |-> test_case.test_name,
     test_input |-> test_case.test_input,
     expected_output |-> test_case.expected_output,
     actual_output |-> [marker |-> "ERROR: ", content |-> << >>, error |-> msg],
     score |-> Score(Fraction(0, 1)),
     passed |-> Flag(0)]

\* The batch being run: pc "idle", "awaiting" (the completion call of case
\* i is in flight) or "done" (the results were returned); dispatched and
\* completed count the completion calls sent and come back, responses is
\* what each call yielded, stored the table when the batch started.
NoRun ==
    [pc |-> "idle", test_cases |-> << >>, i |-> 0, results |-> << >>,
     dispatched |-> 0, completed |-> 0, responses |-> << >>,
     returned |-> << >>, stored |-> << >>]

\* run_evaluation up to the await of the first completion call; with no
\* case, to its end.
run_evaluation(test_cases) ==
    /\ run.pc = "idle"
    /\ Len(evaluations) + Len(test_cases) <= MaxEvaluations
    /\ run' = IF test_cases = << >>
              THEN [NoRun EXCEPT !.pc = "done", !.stored = evaluations]
              ELSE [NoRun EXCEPT !.pc = "awaiting", !.test_cases = test_cases,
                                 !.i = 1, !.dispatched = 1, !.stored = evaluations]
    /\ UNCHANGED <<leads, criteria, messages, last, inflight, evaluations, sim, interactions>>

\* evaluation_completes with an exception ending the batch: nothing is
\* committed, nothing returned.
evaluation_completes_aborting(resp) ==
    /\ run.pc = "awaiting"
    /\ LET test_case == run.test_cases[run.i]
           results == Append(run.results, evaluation_record(test_case, resp.content))
       IN IF ~resp.ok
          THEN /\ run' = [run EXCEPT !.completed = @ + 1,
                                     !.responses = Append(@, resp), !.pc = "done"]
               /\ UNCHANGED evaluations
          ELSE IF run.i < Len(run.test_cases)
          THEN /\ run' = [run EXCEPT !.results = results, !.i = @ + 1,
                                     !.completed = @ + 1, !.dispatched = @ + 1,
                                     !.responses = Append(@, resp)]
               /\ UNCHANGED evaluations
          ELSE /\ evaluations' = evaluations \o results
               /\ run' = [run EXCEPT !.results = results, !.completed = @ + 1,
                                     !.responses = Append(@, resp),
                                     !.pc = "done", !.returned = results]
    /\ UNCHANGED <<leads, criteria, messages, last, inflight, sim, interactions>>

\* evaluation_completes sending the call of a case again when it raised.
evaluation_completes_retrying(resp) ==
    /\ run.pc = "awaiting"
    /\ LET test_case == run.test_cases[run.i]
           results == Append(run.results, evaluation_record(test_case, resp.content))
       IN IF ~resp.ok
          THEN /\ run' = [run EXCEPT !.completed = @ + 1, !.dispatched = @ + 1]
               /\ UNCHANGED evaluations
          ELSE IF run.i < Len(run.test_cases)
          THEN /\ run' = [run EXCEPT !.results = results, !.i = @ + 1,
                                     !.completed = @ + 1, !.dispatched = @ + 1,
                                     !.responses = Append(@, resp)]
               /\ UNCHANGED evaluations
          ELSE /\ evaluations' = evaluations \o results
               /\ run' = [run EXCEPT !.results = results, !.completed = @ + 1,
                                     !.responses = Append(@, resp),
                                     !.pc = "done", !.returned = results]
    /\ UNCHANGED <<leads, criteria, messages, last, inflight, sim, interactions>>

\* run_evaluation from the return (or exception) of the completion call of
\* case i: the record is built and added, then the next call is awaited or,
\* after the last case, everything added is committed and returned.
evaluation_completes(resp) ==
    /\ run.pc = "awaiting"
    /\ LET test_case == run.test_cases[run.i]
           raised == IF resp.ok THEN try_raises(test_case, resp.content)
                     ELSE resp.error
           evaluation == IF raised = ""
                         THEN evaluation_record(test_case, resp.content)
                         ELSE failed_evaluation_record(test_case, raised)
           results == Append(run.results, evaluation)
       IN IF run.i < Len(run.test_cases)
          THEN /\ run' = [run EXCEPT !.results = results, !.i = @ + 1,
                                     !.completed = @ + 1, !.dispatched = @ + 1,
                                     !.responses = Append(@, resp)]
               /\ UNCHANGED evaluations
          ELSE /\ evaluations' = evaluations \o results
               /\ run' = [run EXCEPT !.results = results, !.completed = @ + 1,
                                     !.responses = Append(@, resp),
                                     !.pc = "done", !.returned = results]
    /\ UNCHANGED <<leads, criteria, messages, last, inflight, sim, interactions>>

\* get_db for the evaluation request.
evaluation_closed ==
    /\ run.pc = "done"
    /\ run' = NoRun
    /\ UNCHANGED <<leads, criteria, messages, last, inflight, evaluations, sim, interactions>>

\* ---------------------------------------------------------- lead requests
\* The unique index on leads.email with no check at all.
unique_unchecked(email, lead_id) == TRUE

\* The unique index on leads.email: no other row holds the address.
unique(email, lead_id) ==
    \A i \in LeadIds \ {lead_id} : ~(leads[i].exists /\ leads[i].email = email)

\* create_lead: the INSERT fails with IntegrityError on a taken address, and
\* nothing is committed.
create_lead(lead_id, lead) ==
    /\ last = Idle
    /\ UNCHANGED <<harness, interactions>>
    /\ ~leads[lead_id].exists
    /\ IF ~unique(lead.email, lead_id)
       THEN /\ last' = Raise(Request("create_lead", lead_id, NoFilter),
                             "IntegrityError", "UNIQUE constraint failed: leads.email")
            /\ UNCHANGED leads
       ELSE /\ leads' = [leads EXCEPT ![lead_id] = NewLead(lead)]
            /\ last' = Request("create_lead", lead_id, NoFilter)
    /\ UNCHANGED <<criteria, messages>>

\* The Lead object of update_lead after its setattr calls: every field the
\* LeadUpdate sets (exclude_unset), an explicit null included.
updated(lead, lead_data) ==
    [lead EXCEPT
       !.email =
           CASE lead_data.email.t = "absent" -> @
             [] lead_data.email.t = "null" -> 0
             [] OTHER -> lead_data.email.n,
       !.pipeline_stage =
           CASE lead_data.pipeline_stage.t = "absent" -> @
             [] lead_data.pipeline_stage.t = "null" -> None
             [] OTHER -> lead_data.pipeline_stage.s,
       !.lead_score =
           IF lead_data.lead_score.t = "absent" THEN @
           ELSE lead_data.lead_score.n]

\* update_lead: the UPDATE fails with IntegrityError on a NULL or a taken
\* address, and nothing is committed.  A committed row with a NULL stage
\* does not validate as the response model.
update_lead(lead_id, lead_data) ==
    /\ last = Idle
    /\ UNCHANGED <<harness, interactions>>
    /\ LET lead == updated(get_lead(lead_id), lead_data)
       IN IF ~get_lead(lead_id).exists
          THEN /\ last' = Raise(Request("update_lead", lead_id, NoFilter),
                                "HTTPException", "Lead not found")
               /\ UNCHANGED leads
          ELSE IF lead.email = 0
          THEN /\ last' = Raise(Request("update_lead", lead_id, NoFilter),
                                "IntegrityError", "NOT NULL constraint failed: leads.email")
               /\ UNCHANGED leads
          ELSE IF ~unique(lead.email, lead_id)
          THEN /\ last' = Raise(Request("update_lead", lead_id, NoFilter),
                                "IntegrityError", "UNIQUE constraint failed: leads.email")
               /\ UNCHANGED leads
          ELSE /\ leads' = [leads EXCEPT ![lead_id] = lead]
               /\ last' = IF lead.pipeline_stage = None
                          THEN Raise(Request("update_lead", lead_id, NoFilter),
                                     "ResponseValidationError", "pipeline_stage")
                          ELSE Request("update_lead", lead_id, NoFilter)
    /\ UNCHANGED <<criteria, messages>>

\* The rows of a table that do not belong to lead_id, in order.
RECURSIVE Without(_, _)
Without(rows, lead_id) ==
    IF rows = << >> THEN << >>
    ELSE IF Head(rows).lead_id = lead_id
         THEN Without(Tail(rows), lead_id)
         ELSE <<Head(rows)>> \o Without(Tail(rows), lead_id)

\* delete_lead: the row and, by the relationship cascade, its interactions
\* and messages.
delete_lead(lead_id) ==
    /\ last = Idle
    /\ UNCHANGED harness
    /\ IF ~get_lead(lead_id).exists
       THEN /\ last' = Raise(Request("delete_lead", lead_id, NoFilter),
                             "HTTPException", "Lead not found")
            /\ UNCHANGED <<leads, messages, interactions>>
       ELSE /\ leads' = [leads EXCEPT ![lead_id] = NoLead]
            /\ messages' = Without(messages, lead_id)
            /\ interactions' = Without(interactions, lead_id)
            /\ last' = Request("delete_lead", lead_id, NoFilter)
    /\ UNCHANGED criteria

\* add_interaction: lead_id is taken from the path; 404 unless the lead
\* exists, else the row is inserted.
add_interaction(lead_id, interaction) ==
    /\ last = Idle
    /\ UNCHANGED harness
    /\ IF ~get_lead(lead_id).exists
       THEN /\ last' = Raise(Request("add_interaction", lead_id, NoFilter),
                             "HTTPException", "Lead not found")
            /\ UNCHANGED interactions
       ELSE /\ Len(interactions) < MaxInteractions
            /\ interactions' = Append(interactions,
                   [interaction EXCEPT !.lead_id = lead_id])
            /\ last' = Request("add_interaction", lead_id, NoFilter)
    /\ UNCHANGED <<leads, criteria, messages>>

\* get_pipeline_stats: for each stage the count of the leads in it.
get_pipeline_stats ==
    [stage \in PipelineStage |->
        Cardinality({i \in LeadIds :
                        leads[i].exists /\ leads[i].pipeline_stage = stage})]

\* ----------------------------------------------------- criterion requests
\* A new scoring_criteria row: the fields given, is_active by its default.
NewCriterion(criteria_in) ==
    [exists |-> TRUE, name |-> criteria_in.name,
     description |-> criteria_in.description, weight |-> criteria_in.weight,
     criteria_rules |-> criteria_in.criteria_rules, is_active |-> 1]

create_scoring_criteria(criteria_id, criteria_in) ==
    /\ last = Idle
    /\ UNCHANGED <<harness, interactions>>
    /\ ~criteria[criteria_id].exists
    /\ \A c \in CriteriaRows : c < criteria_id => criteria[c].exists
    /\ criteria' = [criteria EXCEPT ![criteria_id] = NewCriterion(criteria_in)]
    /\ last' = Request("create_scoring_criteria", 0, NoFilter)
    /\ UNCHANGED <<leads, messages>>

\* update_scoring_criteria writing is_active with the other columns.
update_scoring_criteria_reactivating(criteria_id, criteria_update) ==
    /\ last = Idle
    /\ UNCHANGED <<harness, interactions>>
    /\ IF ~criteria[criteria_id].exists
       THEN /\ last' = Raise(Request("update_scoring_criteria", 0, NoFilter),
                             "HTTPException", "Scoring criteria not found")
            /\ UNCHANGED criteria
       ELSE /\ criteria' = [criteria EXCEPT ![criteria_id] =
                   [@ EXCEPT !.name = criteria_update.name,
                             !.description = criteria_update.description,
                             !.weight = criteria_update.weight,
                             !.criteria_rules = criteria_update.criteria_rules,
                             !.is_active = 1]]
            /\ last' = Request("update_scoring_criteria", 0, NoFilter)
    /\ UNCHANGED <<leads, messages>>

\* update_scoring_criteria: setattr for every field of the
\* ScoringCriteriaCreate; is_active is none of them.
update_scoring_criteria(criteria_id, criteria_update) ==
    /\ last = Idle
    /\ UNCHANGED <<harness, interactions>>
    /\ IF ~criteria[criteria_id].exists
       THEN /\ last' = Raise(Request("update_scoring_criteria", 0, NoFilter),
                             "HTTPException", "Scoring criteria not found")
            /\ UNCHANGED criteria
       ELSE /\ criteria' = [criteria EXCEPT ![criteria_id] =
                   [@ EXCEPT !.name = criteria_update.name,
                             !.description = criteria_update.description,
                             !.weight = criteria_update.weight,
                             !.criteria_rules = criteria_update.criteria_rules]]
            /\ last' = Request("update_scoring_criteria", 0, NoFilter)
    /\ UNCHANGED <<leads, messages>>

\* delete_scoring_criteria removing the row.
delete_scoring_criteria_hard(criteria_id) ==
    /\ last = Idle
    /\ UNCHANGED <<harness, interactions>>
    /\ IF ~criteria[criteria_id].exists
       THEN /\ last' = Raise(Request("delete_scoring_criteria", 0, NoFilter),
                             "HTTPException", "Scoring criteria not found")
            /\ UNCHANGED criteria
       ELSE /\ criteria' = [criteria EXCEPT ![criteria_id] = NoCriterion]
            /\ last' = Request("delete_scoring_criteria", 0, NoFilter)
    /\ UNCHANGED <<leads, messages>>

\* delete_scoring_criteria: a soft delete.
delete_scoring_criteria(criteria_id) ==
    /\ last = Idle
    /\ UNCHANGED <<harness, interactions>>
    /\ IF ~criteria[criteria_id].exists
       THEN /\ last' = Raise(Request("delete_scoring_criteria", 0, NoFilter),
                             "HTTPException", "Scoring criteria not found")
            /\ UNCHANGED criteria
       ELSE /\ criteria' = [criteria EXCEPT ![criteria_id].is_active = 0]
            /\ last' = Request("delete_scoring_criteria", 0, NoFilter)
    /\ UNCHANGED <<leads, messages>>

\* The loop of create_default_scoring_criteria from default i on: a default
\* is added, under the next id, unless a row of its name exists in the table
\* as it was queried (nothing is flushed inside the loop).
RECURSIVE add_defaults(_, _, _)
add_defaults(queried, table, i) ==
    IF i > Len(default_criteria) THEN table
    ELSE IF \E c \in CriteriaRows :
                queried[c].exists /\ queried[c].name = default_criteria[i].name
         THEN add_defaults(queried, table, i + 1)
         ELSE LET free == CHOOSE c \in CriteriaRows :
                              /\ ~table[c].exists
                              /\ \A d \in CriteriaRows : d < c => table[d].exists
              IN add_defaults(queried,
                              [table EXCEPT ![free] = NewCriterion(default_criteria[i])],
                              i + 1)

\* The table has room for every default (the ids of CriteriaRows).
create_default_scoring_criteria ==
    /\ last = Idle
    /\ UNCHANGED <<harness, interactions>>
    /\ Cardinality({c \in CriteriaRows : ~criteria[c].exists}) >= Len(default_criteria)
    /\ criteria' = add_defaults(criteria, criteria, 1)
    /\ last' = Request("create_default_scoring_criteria", 0, NoFilter)
    /\ UNCHANGED <<leads, messages>>

\* get_db: the request's session is closed once its response is out.
get_db ==
    /\ last # Idle
    /\ last' = Idle
    /\ UNCHANGED <<harness, interactions>>
    /\ UNCHANGED <<leads, criteria, messages>>

\* ------------------------------------------------------------------ inputs
Qualification(stage, score) ==
    [NoKeys EXCEPT
        !["recommended_stage"] = stage,
        !["qualification_score"] = score,
        !["qualification_reasons"] = JList1("Budget owner")]

\* Objects a completion may hold for a qualification: stages named, not
\* named, unknown to stage_mapping or no string; scores given, zero, not
\* given or no number.
QualificationObjects ==
    {Qualification(JStr("qualified"), JNum(800)),
     Qualification(JStr("contacted"), JNum(0)),
     Qualification(JStr("contacted"), JAbsent),
     Qualification(JAbsent, JNum(800)),
     Qualification(JAbsent, JAbsent),
     Qualification(JStr("closed_won"), JNum(800)),
     Qualification(JStr("closed_won"), JNum(0)),
     Qualification(JList1("qualified"), JNum(800)),
     Qualification(JStr("qualified"), JStr("80"))}

Scoring(total, scores, recs) ==
    [NoKeys EXCEPT
        !["total_score"] = total,
        !["criteria_scores"] = scores,
        !["recommendations"] = recs]

\* Objects a completion may hold for a scoring.
ScoringObjects ==
    {Scoring(JNum(80), JDict([nm \in {"Company Size"} |-> 80]), JList1("Call this week")),
     Scoring(JNum(80), JAbsent, JAbsent),
     Scoring(JNum(0), JDict([nm \in {"Company Size"} |-> 0]), JList1("Drop")),
     Scoring(JAbsent, JDict([nm \in {"Company Size"} |-> 80]), JAbsent)}

NotAnObject == Text("other", NoKeys, FALSE)

QualificationTexts ==
    {Prose, NotAnObject} \cup {Text("object", o, FALSE) : o \in QualificationObjects}
ScoringTexts ==
    {Prose, NotAnObject} \cup {Text("object", o, FALSE) : o \in ScoringObjects}
MessageTexts ==
    {Text("prose", NoKeys, pad) : pad \in BOOLEAN}

Responses(texts) ==
    {Success(t) : t \in texts} \cup {Failure(e) : e \in completion_errors}

Filters ==
    {NoFilter} \cup {[given |-> TRUE, ids |-> S] : S \in SUBSET CritIds}

\* Criteria a client may create or put.
CompanySize ==
    [name |-> "Company Size", description |-> "Headcount", weight |-> 30,
     criteria_rules |-> "enterprise"]
CriterionInputs ==
    {CompanySize,
     [name |-> "Industry Fit", description |-> "Vertical", weight |-> 20,
      criteria_rules |-> "technology"]}

\* Leads a client may create: each nullable column given or not.
LeadCreates ==
    [OptionalFields -> {JNull, JStr("given")}]
BareLead == [f \in OptionalFields |-> JNull]

\* A LeadCreate under an address.  A client that never meets the unique
\* index gives each lead an address of its own, Addressed(lead, i) for the
\* lead of id i.
Addressed(lead, email) == [email |-> email] @@ lead

\* Edits a client may make (the fields a LeadUpdate sets): any stage, or a
\* score.
UpdateData ==
    {[email |-> JAbsent, pipeline_stage |-> JStr(st), lead_score |-> JAbsent] :
        st \in PipelineStage}
    \cup {[email |-> JAbsent, pipeline_stage |-> JAbsent, lead_score |-> JNum(30)]}

\* The edit the scoring client makes.
StageEdit ==
    [email |-> JAbsent, pipeline_stage |-> JStr("negotiation"), lead_score |-> JAbsent]

\* ----------------------------------------------------------- specification
Init ==
    /\ leads = [i \in LeadIds |-> NoLead]
    /\ criteria = [c \in CriteriaRows |-> NoCriterion]
    /\ messages = << >>
    /\ last = Idle
    /\ inflight = [h \in Handlers |-> Free]
    /\ evaluations = << >>
    /\ run = NoRun
    /\ sim = NoCall
    /\ interactions = << >>

\* One client of the qualification endpoints: each request is answered
\* before the next is sent.
Next ==
    \/ \E i \in LeadIds : create_lead(i, Addressed(BareLead, i))
    \/ \E i \in LeadIds, d \in UpdateData : update_lead(i, d)
    \/ \E i \in LeadIds : delete_lead(i)
    \/ \E i \in LeadIds, r \in Responses(QualificationTexts) :
           LeadService_qualify_lead(i, r)
    \/ get_db

Spec == Init /\ [][Next]_vars

\* One client of the scoring endpoints.
NextScore ==
    \/ \E i \in LeadIds : create_lead(i, Addressed(BareLead, i))
    \/ \E i \in LeadIds : update_lead(i, StageEdit)
    \/ \E c \in CritIds, d \in CriterionInputs :
           create_scoring_criteria(c, d)
    \/ \E c \in CritIds : delete_scoring_criteria(c)
    \/ \E i \in LeadIds, f \in Filters, r \in Responses(ScoringTexts) :
           LeadService_score_lead(i, f, r)
    \/ get_db

SpecScore == Init /\ [][NextScore]_vars

\* One client of every endpoint, with one completion of each kind.
SomeQualifications ==
    {Success(Prose), Success(NotAnObject),
     Success(Text("object", Qualification(JStr("qualified"), JNum(800)), FALSE)),
     Failure("Failed to connect to Grok API")}
SomeScorings ==
    {Success(Prose), Success(NotAnObject),
     Success(Text("object", Scoring(JNum(80), JAbsent, JAbsent), FALSE)),
     Failure("Failed to connect to Grok API")}
SomeMessages ==
    {Success(Text("prose", NoKeys, TRUE)), Failure("Failed to connect to Grok API")}
SomeFilters == {NoFilter, [given |-> TRUE, ids |-> {1}]}

NextAll ==
    \/ \E i \in LeadIds : create_lead(i, Addressed(BareLead, i))
    \/ \E i \in LeadIds : update_lead(i, StageEdit)
    \/ \E i \in LeadIds : delete_lead(i)
    \/ \E c \in CritIds : create_scoring_criteria(c, CompanySize)
    \/ \E c \in CritIds : delete_scoring_criteria(c)
    \/ \E i \in LeadIds, r \in SomeQualifications : LeadService_qualify_lead(i, r)
    \/ \E i \in LeadIds, f \in SomeFilters, r \in SomeScorings :
           LeadService_score_lead(i, f, r)
    \/ \E i \in LeadIds, r \in SomeMessages : LeadService_generate_message(i, r)
    \/ get_db

SpecAll == Init /\ [][NextAll]_vars

\* Concurrent clients of Qualify and Score on one lead.
FirstLead == CHOOSE i \in LeadIds : \A j \in LeadIds : i <= j
FirstCriterion == CHOOSE c \in CritIds : \A d \in CritIds : c <= d

RaceQualifications ==
    {Success(Prose),
     Success(Text("object", Qualification(JStr("qualified"), JNum(800)), FALSE)),
     Failure("Failed to connect to Grok API")}
RaceScorings ==
    {Success(Prose),
     Success(Text("object", Scoring(JNum(80), JAbsent, JAbsent), FALSE)),
     Failure("Failed to connect to Grok API")}

NextRace ==
    \/ create_lead(FirstLead, Addressed(BareLead, FirstLead))
    \/ create_scoring_criteria(FirstCriterion, CompanySize)
    \/ get_db
    \/ \E h \in Handlers : qualify_lead_start(h, FirstLead)
    \/ \E h \in Handlers : score_lead_start(h, FirstLead, NoFilter)
    \/ \E h \in Handlers, r \in RaceQualifications :
           inflight[h].req.op = "qualify_lead" /\ completion_returns(h, r)
    \/ \E h \in Handlers, r \in RaceScorings :
           inflight[h].req.op = "score_lead" /\ completion_returns(h, r)
    \/ \E h \in Handlers : qualify_lead_resume(h)
    \/ \E h \in Handlers : score_lead_resume(h)
    \/ \E h \in Handlers : handler_closed(h)
    \/ crash

SpecRace == Init /\ [][NextRace]_vars

\* One client of the evaluation endpoint.
Quad == <<"a", " ", "b", " ", "a", "a", " ", "a", "b">>
\* Three of the four words of Quad in twice its length: 0.8 * 3/4 +
\* 0.2 * 1/2.
Boundary ==
    <<"a", " ", "b", " ", "a", "a">>
    \o <<" ", " ", " ", " ", " ", " ", " ", " ", " ", " ">> \o <<"b", "b">>
EvalExpected ==
    {NoStr, Str(<< >>), Str(<<"a", " ", "b">>), Str(Quad)}
EvalCases ==
    {[test_name |-> "high", test_input |-> "qualify", expected_output |-> e] :
        e \in EvalExpected}
    \cup {[test_name |-> "low", test_input |-> "score", expected_output |-> NoStr]}
Batches ==
    UNION {[1..n -> EvalCases] : n \in 0..MaxCases}
EvalResponses ==
    {Completed_(<<"a", " ", "b">>),
     Completed_(<<"A", " ", "B", " ">>),
     Completed_(<<"a">>),
     Completed_(Boundary),
     Failed_("Failed to connect to Grok API"),
     Failed_("Grok API error: 500")}

NextEval ==
    \/ \E b \in Batches : run_evaluation(b)
    \/ \E r \in EvalResponses : evaluation_completes(r)
    \/ evaluation_closed

SpecEval == Init /\ [][NextEval]_vars

\* The completion client has a timeout: a call in flight returns or raises.
SpecEvalFair ==
    SpecEval /\ WF_vars(\E r \in EvalResponses : evaluation_completes(r))

\* The scorer on every pair of strs of at most MaxLen characters.
Strs == UNION {[1..n -> Chars] : n \in 0..MaxLen}

InitSimilarity ==
    /\ leads = [i \in LeadIds |-> NoLead]
    /\ criteria = [c \in CriteriaRows |-> NoCriterion]
    /\ messages = << >>
    /\ last = Idle
    /\ inflight = [h \in Handlers |-> Free]
    /\ evaluations = << >>
    /\ run = NoRun
    /\ sim \in {[NoCall EXCEPT !.expected = e, !.actual = a] : e, a \in Strs}
    /\ interactions = << >>

SpecSimilarity == InitSimilarity /\ [][calculate_similarity_score]_vars

\* One client of the criterion endpoints.
NextCriteria ==
    \/ \E c \in CritIds, d \in CriterionInputs : create_scoring_criteria(c, d)
    \/ \E c \in CriteriaRows, d \in CriterionInputs : update_scoring_criteria(c, d)
    \/ \E c \in CriteriaRows : delete_scoring_criteria(c)
    \/ create_default_scoring_criteria
    \/ get_db

SpecCriteria == Init /\ [][NextCriteria]_vars

\* One client of the endpoints that build a prompt, on leads of every
\* shape.
NextPrompt ==
    \/ \E i \in LeadIds, l \in LeadCreates : create_lead(i, Addressed(l, i))
    \/ \E c \in CritIds : create_scoring_criteria(c, CompanySize)
    \/ \E i \in LeadIds : LeadService_qualify_lead(i, Success(Prose))
    \/ \E i \in LeadIds : LeadService_score_lead(i, NoFilter, Success(Prose))
    \/ \E i \in LeadIds :
           LeadService_generate_message(i, Success(Text("prose", NoKeys, FALSE)))
    \/ get_db

SpecPrompt == Init /\ [][NextPrompt]_vars

\* One client of the record endpoints: leads under any address, edits of
\* the address and of the stage (an explicit null included), interactions
\* logged under any body lead_id, messages generated.
RecordEdits ==
    {[email |-> JNum(e), pipeline_stage |-> JAbsent, lead_score |-> JAbsent] :
        e \in Emails}
    \cup {[email |-> JNull, pipeline_stage |-> JAbsent, lead_score |-> JAbsent],
          [email |-> JAbsent, pipeline_stage |-> JNull, lead_score |-> JAbsent],
          [email |-> JAbsent, pipeline_stage |-> JStr("contacted"),
           lead_score |-> JAbsent]}

NextRecords ==
    \/ \E i \in LeadIds, e \in Emails : create_lead(i, Addressed(BareLead, e))
    \/ \E i \in LeadIds, d \in RecordEdits : update_lead(i, d)
    \/ \E i \in LeadIds : delete_lead(i)
    \/ \E i \in LeadIds, j \in LeadIds :
           add_interaction(i, [lead_id |-> j, interaction_type |-> "note"])
    \/ \E i \in LeadIds, r \in SomeMessages : LeadService_generate_message(i, r)
    \/ get_db

SpecRecords == Init /\ [][NextRecords]_vars

\* Clients of the record endpoints while messages are being generated: a
\* lead may be deleted while a generate_message awaits its completion.
NextOrphan ==
    \/ \E i \in LeadIds : create_lead(i, Addressed(BareLead, i))
    \/ \E i \in LeadIds : delete_lead(i)
    \/ \E i \in LeadIds : add_interaction(i, [lead_id |-> i, interaction_type |-> "note"])
    \/ get_db
    \/ \E h \in Handlers, i \in LeadIds : generate_message_start(h, i)
    \/ \E h \in Handlers, r \in SomeMessages : completion_returns(h, r)
    \/ \E h \in Handlers : generate_message_resume(h)
    \/ \E h \in Handlers : handler_closed(h)

SpecOrphan == Init /\ [][NextOrphan]_vars

\* One client of the Scoring Engine and of message generation, next to
\* logged interactions: completions with numbers inside and outside the
\* prompts' ranges (150 and -5.0 of 0-100, -1.0 of 0-10), message texts
\* that are prose or JSON, padded or not.
EngineQualifications ==
    {Success(Text("object", Qualification(JStr("qualified"), JNum(1500)), FALSE)),
     Success(Text("object", Qualification(JAbsent, JNum(-50)), FALSE)),
     Failure("Grok API error: 500")}
EngineScorings ==
    {Success(Text("object", Scoring(JNum(-10), JAbsent, JAbsent), FALSE)),
     Failure("Failed to connect to Grok API")}
EngineMessages ==
    {Success(Text(fmt, NoKeys, pad)) : fmt \in {"prose", "object"}, pad \in BOOLEAN}
    \cup {Failure("Unexpected error with Grok API")}

NextEngine ==
    \/ \E i \in LeadIds : create_lead(i, Addressed(BareLead, i))
    \/ create_scoring_criteria(FirstCriterion, CompanySize)
    \/ add_interaction(FirstLead,
                       [lead_id |-> FirstLead, interaction_type |-> "note"])
    \/ \E i \in LeadIds, r \in EngineQualifications : LeadService_qualify_lead(i, r)
    \/ \E i \in LeadIds, r \in EngineScorings :
           LeadService_score_lead(i, NoFilter, r)
    \/ \E i \in LeadIds, r \in EngineMessages : LeadService_generate_message(i, r)
    \/ get_db

SpecEngine == Init /\ [][NextEngine]_vars

\* One client of every endpoint that calls the completion API: Qualify,
\* Score and message generation on one lead, and evaluation batches.
CallCases ==
    {[test_name |-> "high", test_input |-> "qualify",
      expected_output |-> Str(<<"a", " ", "b">>)],
     [test_name |-> "low", test_input |-> "score", expected_output |-> NoStr]}

NextCalls ==
    \/ create_lead(FirstLead, Addressed(BareLead, FirstLead))
    \/ create_scoring_criteria(FirstCriterion, CompanySize)
    \/ \E r \in SomeQualifications : LeadService_qualify_lead(FirstLead, r)
    \/ \E r \in SomeScorings : LeadService_score_lead(FirstLead, NoFilter, r)
    \/ \E r \in SomeMessages : LeadService_generate_message(FirstLead, r)
    \/ get_db
    \/ \E n \in 0..MaxCases : \E b \in [1..n -> CallCases] : run_evaluation(b)
    \/ \E r \in {Completed_(<<"a">>), Failed_("Grok API error: 500")} :
           evaluation_completes(r)
    \/ evaluation_closed

SpecCalls == Init /\ [][NextCalls]_vars

\* One client of the criterion endpoints and of Score: criteria created,
\* put, deactivated, the defaults created, a lead scored.
NextDeactivation ==
    \/ create_lead(FirstLead, Addressed(BareLead, FirstLead))
    \/ create_scoring_criteria(FirstCriterion, CompanySize)
    \/ \E c \in CriteriaRows, d \in CriterionInputs :
           update_scoring_criteria(c, d)
    \/ \E c \in CriteriaRows : delete_scoring_criteria(c)
    \/ create_default_scoring_criteria
    \/ \E f \in SomeFilters : LeadService_score_lead(FirstLead, f, Success(Prose))
    \/ get_db

SpecDeactivation == Init /\ [][NextDeactivation]_vars

\* ================================================================== claims
\* The lead row of the request being served, as it is now.
Target == leads[last.lead_id]

\* The request being served got a completion back (the client call did not
\* raise).
Completed(op) ==
    /\ last.op = op
    /\ last.calls = 1
    /\ last.resp.ok

\* The completion text of the request being served, and its JSON members.
Given == last.resp.content
Members == Given.obj

RecognizedStage(v) == v.t = "str" /\ v.s \in {"new", "qualified", "contacted"}
PromptRangeScore(v) == v.t = "num" /\ v.n >= 0 /\ v.n <= 1000

\* C1: a qualification result that names a recognized stage and carries a
\* numeric score s in 0..100 (0 included) leaves the lead with that stage and
\* with lead_score s / 10.
C1_AsClaimed ==
    ( /\ Completed("qualify_lead")
      /\ Given.fmt = "object"
      /\ RecognizedStage(Members["recommended_stage"])
      /\ PromptRangeScore(Members["qualification_score"]) )
    => /\ last.raised = ""
       /\ Target.pipeline_stage = Members["recommended_stage"].s
       /\ Target.lead_score * 10 = Members["qualification_score"].n

\* C2: stage and score are applied independently. A result without a
\* recognized stage leaves the stage as it was and still applies a numeric
\* score; a result without a score leaves the score as it was and still
\* applies a recognized stage; the stage after Qualify is the prior one or
\* one of new, qualified, contacted.
C2_AsClaimed ==
    (Completed("qualify_lead") /\ Given.fmt = "object")
    => /\ ~RecognizedStage(Members["recommended_stage"])
          => /\ Target.pipeline_stage = last.before.pipeline_stage
             /\ Members["qualification_score"].t = "num"
                => Target.lead_score * 10 = Members["qualification_score"].n
       /\ Members["qualification_score"].t = "absent"
          => /\ Target.lead_score = last.before.lead_score
             /\ RecognizedStage(Members["recommended_stage"])
                => Target.pipeline_stage = Members["recommended_stage"].s
       /\ Target.pipeline_stage \in
             {last.before.pipeline_stage, "new", "qualified", "contacted"}

\* C6: malformed completion output is never an error. Whenever the
\* completion call succeeds, Qualify and Score return normally, and a text
\* that is no JSON object is replaced by the fallback payload.
C6_AsClaimed ==
    (Completed("qualify_lead") \/ Completed("score_lead"))
    => /\ last.raised = ""
       /\ (last.op = "qualify_lead" /\ Given.fmt # "object")
          => last.ret.obj = _parse_qualification_text

\* C7: on a completion text that does not decode, Qualify returns the fixed
\* payload (score 50, stage "new", one placeholder reason, action and pain
\* point) and applies it: the lead ends in stage new with lead_score 5.0.
C7_QualificationFallback ==
    (Completed("qualify_lead") /\ Given.fmt = "prose")
    => /\ last.raised = ""
       /\ last.ret.obj["qualification_score"] = JNum(500)
       /\ last.ret.obj["recommended_stage"] = JStr("new")
       /\ \A k \in {"qualification_reasons", "next_actions", "pain_points"} :
             last.ret.obj[k].t = "list" /\ last.ret.obj[k].n = 1
       /\ Target.pipeline_stage = "new"
       /\ Target.lead_score = 50

\* A closed_won lead scored 8.0 was re-qualified from an undecodable text.
C7_Witness ==
    /\ Completed("qualify_lead")
    /\ Given.fmt = "prose"
    /\ last.before.pipeline_stage = "closed_won"
    /\ last.before.lead_score = 80
    /\ Target.pipeline_stage = "new"
    /\ Target.lead_score = 50

\* The ids of the active criteria.
ActiveIds == {c \in CriteriaRows : criteria[c].exists /\ criteria[c].is_active = 1}

\* The criteria put in the prompt of the request being served.
Selected == {last.selected[i] : i \in 1..Len(last.selected)}

\* C3: Score on an existing lead with no active criterion fails with "no
\* active criteria" (a 404), dispatches no completion request and leaves the
\* lead's score and stage as they were.
C3_NoActiveCriteria ==
    (last.op = "score_lead" /\ last.before.exists /\ ActiveIds = {})
    => /\ last.raised = "ValueError"
       /\ last.detail = "No active scoring criteria found"
       /\ http_status(last) = 404
       /\ last.calls = 0
       /\ Target = last.before

\* A scored lead is scored again after every criterion was deactivated.
C3_Witness ==
    /\ last.op = "score_lead"
    /\ last.detail = "No active scoring criteria found"
    /\ \E c \in CritIds : criteria[c].exists /\ criteria[c].is_active = 0
    /\ last.before.lead_score # 0
    /\ Target = last.before

\* The requests that need their lead to exist.
LeadRequests == {"qualify_lead", "score_lead", "generate_message"}

\* C4: Qualify, Score and message generation on a lead id that has no row
\* fail with "Lead not found" (a 404) before any completion request, and
\* change no lead, message or criterion.
C4_LeadNotFound ==
    [][ (last'.op \in LeadRequests /\ ~leads[last'.lead_id].exists)
        => /\ last'.raised = "ValueError"
           /\ last'.detail = "Lead not found"
           /\ http_status(last') = 404
           /\ last'.calls = 0
           /\ UNCHANGED <<leads, criteria, messages>> ]_vars

\* A message is asked for a lead that has no row, while another lead, a
\* message and an active criterion exist.
C4_Witness ==
    /\ last.op = "generate_message"
    /\ last.detail = "Lead not found"
    /\ last.calls = 0
    /\ \E i \in LeadIds : leads[i].exists
    /\ messages # << >>
    /\ ActiveIds # {}

\* The scoring fallback of the request being served.
ScoringFallback == Completed("score_lead") /\ Given.fmt = "prose"
FallbackScores == last.ret.obj["criteria_scores"]

\* C5 as claimed: on an undecodable text for N selected criteria,
\* criteria_scores has N entries, one per selected criterion, each 5.0, and
\* total_score is 5.0, for every assignment of criterion names.
C5_AsClaimed ==
    ScoringFallback
    => /\ last.raised = ""
       /\ FallbackScores.t = "dict"
       /\ Cardinality(DOMAIN FallbackScores.m) = Len(last.selected)
       /\ \A nm \in DOMAIN FallbackScores.m : FallbackScores.m[nm] = 50
       /\ last.ret.obj["total_score"] = JNum(50)

\* C5 as amended: criteria_scores has one entry per distinct name among the
\* selected criteria (N entries when the names are pairwise distinct), each
\* 5.0, and total_score is 5.0 whatever the weights.
C5_FallbackLaw ==
    ScoringFallback
    => /\ last.raised = ""
       /\ FallbackScores.t = "dict"
       /\ DOMAIN FallbackScores.m = {criteria[c].name : c \in Selected}
       /\ (\A c, d \in Selected : c # d => criteria[c].name # criteria[d].name)
          => Cardinality(DOMAIN FallbackScores.m) = Len(last.selected)
       /\ \A nm \in DOMAIN FallbackScores.m : FallbackScores.m[nm] = 50
       /\ last.ret.obj["total_score"] = JNum(50)

\* The fallback for two selected criteria of different names and weights.
C5_Witness ==
    /\ ScoringFallback
    /\ Len(last.selected) = 2
    /\ \E c, d \in Selected :
          /\ criteria[c].name # criteria[d].name
          /\ criteria[c].weight # criteria[d].weight
    /\ Cardinality(DOMAIN FallbackScores.m) = 2

\* C8: with a non-empty selection, a scoring result that contains a numeric
\* total_score (0 included) overwrites lead_score with that value; one
\* without total_score leaves lead_score; pipeline_stage never changes.
C8_AsClaimed ==
    (Completed("score_lead") /\ Given.fmt = "object")
    => /\ last.raised = ""
       /\ Members["total_score"].t = "num"
          => Target.lead_score = Members["total_score"].n
       /\ Members["total_score"].t = "absent"
          => Target.lead_score = last.before.lead_score
       /\ Target.pipeline_stage = last.before.pipeline_stage

\* The selection C9 claims: the active criteria, restricted to the supplied
\* ids whenever a list is supplied.
ClaimedSelection ==
    IF last.criteria_ids.given
    THEN ActiveIds \cap last.criteria_ids.ids
    ELSE ActiveIds

\* C9: the prompt's criteria are the active criteria intersected with the
\* supplied id set, for every supplied set (the empty one included), and
\* Score fails with "no criteria" exactly when that selection is empty.
C9_AsClaimed ==
    (last.op = "score_lead" /\ last.before.exists)
    => /\ (ClaimedSelection = {})
          <=> last.detail = "No active scoring criteria found"
       /\ last.calls = 1 => Selected = ClaimedSelection

\* What C10 claims Score returns for a decoded object or the fallback.
ScoringResult ==
    GrokService_score_lead(Given, criteria_data(last.selected)).obj

\* C10: whenever Score gets a completion back it returns lead_id,
\* total_score, criteria_scores and recommendations, with 0, {} and [] for
\* what the result lacks; Qualify returns the qualification result unchanged.
C10_AsClaimed ==
    /\ Completed("score_lead")
       => /\ last.raised = ""
          /\ last.ret.lead_id = last.lead_id
          /\ last.ret.obj["total_score"] =
                GetDefault(ScoringResult, "total_score", JNum(0))
          /\ last.ret.obj["criteria_scores"] =
                GetDefault(ScoringResult, "criteria_scores", JDict(EmptyMap))
          /\ last.ret.obj["recommendations"] =
                GetDefault(ScoringResult, "recommendations", JList0)
    /\ Completed("qualify_lead")
       => /\ last.raised = ""
          /\ last.ret.obj = GrokService_qualify_lead(Given).obj

\* ------------------------------------------------ concurrent Qualify / Score
\* The score the handler's result carries: a number other than zero (zero is
\* the subject of C1 and C8).
CarriedScore(h) ==
    LET v == IF inflight[h].req.op = "qualify_lead"
             THEN inflight[h].req.ret.obj["qualification_score"]
             ELSE inflight[h].req.ret.obj["total_score"]
    IN v.t = "num" /\ v.n # 0

\* The result of a handler whose completion returned, fully applied to a
\* lead row.
FullyApplied(h, row) ==
    IF inflight[h].req.op = "qualify_lead"
    THEN LET q == GrokService_qualify_lead(inflight[h].req.resp.content).obj
         IN qualify_score(qualify_stage(row, q), q)
    ELSE score_update(row,
             GrokService_score_lead(inflight[h].req.resp.content,
                                    criteria_data(inflight[h].req.selected)).obj)

\* C11 (as stated): no partial Qualify/Score state is visible.  A step of a
\* Qualify or Score handler either leaves the lead's (pipeline_stage,
\* lead_score) as it was - while the completion is awaited, when it fails,
\* when the process crashes - or is the handler's one commit after the
\* completion returned, and then the pair is the one with the handler's
\* result fully applied.
C11_AsClaimed ==
    [][\A h \in Handlers :
          inflight'[h].pc # inflight[h].pc =>
              IF inflight[h].pc = "returned" /\ inflight'[h].committed
              THEN leads'[inflight[h].req.lead_id] =
                       FullyApplied(h, leads[inflight[h].req.lead_id])
              ELSE leads' = leads]_vars

\* C12 (as stated): last writer wins.  When a handler commits a score after
\* another handler committed one for the same lead while it was suspended,
\* the lead's lead_score is the value the later handler computed.
C12_AsClaimed ==
    \A h \in Handlers :
        (/\ inflight[h].pc = "done"
         /\ inflight[h].committed
         /\ inflight[h].raced
         /\ CarriedScore(h))
        => inflight[h].refreshed.lead_score = inflight[h].lead.lead_score

\* -------------------------------------------------------- evaluation harness
\* The k-th case of the batch being run got a completion / an exception.
CaseSucceeded(k) == run.responses[k].ok
CaseFailed(k) == ~run.responses[k].ok

\* An expected output was supplied with the k-th case (the empty str counts
\* as none, as in run_evaluation).
ExpectedSupplied(k) ==
    /\ ~run.test_cases[k].expected_output.none
    /\ run.test_cases[k].expected_output.text # << >>

\* C13: a case whose completion call raises is recorded with passed false,
\* score 0.0 and an actual_output made of the error marker and the message,
\* with or without an expected output; the batch goes on: a record exists
\* for every case already handled, and for every case once the run is done.
C13_FailureRecorded ==
    /\ \A k \in 1..Len(run.responses) :
           CaseFailed(k) =>
               /\ run.results[k].passed = Flag(0)
               /\ run.results[k].score = Score(Fraction(0, 1))
               /\ run.results[k].actual_output.marker = "ERROR: "
               /\ run.results[k].actual_output.error = run.responses[k].error
    /\ Len(run.results) = Len(run.responses)
    /\ run.pc = "awaiting" => Len(run.results) = run.i - 1
    /\ run.pc = "done" => Len(run.returned) = Len(run.test_cases)

\* A batch of two is done; its first case had an expected output and its
\* call raised, its second call returned.
C13_Witness ==
    /\ run.pc = "done"
    /\ Len(run.test_cases) = 2
    /\ CaseFailed(1) /\ ExpectedSupplied(1)
    /\ CaseSucceeded(2)
    /\ run.returned[2].actual_output.marker = ""

\* The i-th record returned is that of the i-th case.
RecordOfCase(k) ==
    /\ run.returned[k].test_name = run.test_cases[k].test_name
    /\ run.returned[k].test_input = run.test_cases[k].test_input

C14_Sequential ==
    /\ run.dispatched - run.completed = (IF run.pc = "awaiting" THEN 1 ELSE 0)
    /\ run.pc = "awaiting" => run.dispatched = run.i /\ run.completed = run.i - 1
    /\ run.pc = "done" =>
           /\ Len(run.returned) = Len(run.test_cases)
           /\ run.completed = Len(run.test_cases)
           /\ \A k \in 1..Len(run.test_cases) : RecordOfCase(k)
           /\ evaluations = run.stored \o run.returned

\* C14: for every batch and every pattern of completion successes and
\* failures the run ends and returns one record per case, the i-th that of
\* the i-th case; exactly these are appended to the evaluations table; at
\* most one completion call is in flight, that of case i + 1 being sent only
\* when i calls have come back.
C14_BatchRuns ==
    /\ []C14_Sequential
    /\ (run.pc = "awaiting") ~> (run.pc = "done")

\* A batch of two different cases is done, the first call having raised
\* and the second returned.
C14_Witness ==
    /\ run.pc = "done"
    /\ Len(run.test_cases) = 2
    /\ run.test_cases[1].test_name # run.test_cases[2].test_name
    /\ CaseFailed(1) /\ CaseSucceeded(2)
    /\ Len(evaluations) = 2

\* C15 (as stated): a case without expected output whose completion
\* succeeds gets a record whose score and pass verdict are both unset.
C15_AsClaimed ==
    \A k \in 1..Len(run.responses) :
        (CaseSucceeded(k) /\ run.test_cases[k].expected_output.none)
        => /\ run.results[k].score.none
           /\ run.results[k].passed.none

Words(str) == str_split(str_lower(str))
Normalized(str) == str_strip(str_lower(str))
SimValue == sim.result.value

\* C17 (as stated): similarity lies within [0.0, 1.0], divides by no zero,
\* and is 0.0 whenever expected has no words, whatever actual is.
C17_AsClaimed ==
    sim.called =>
        /\ sim.result.raised = ""
        /\ SimValue.den > 0
        /\ SimValue.num >= 0 /\ SimValue.num <= SimValue.den
        /\ Words(sim.expected) = {} => SimValue.num = 0

\* The value C18 gives for strs that differ after normalization; it has
\* none when expected has no words.
OverlapDefined == Words(sim.expected) # {}
OverlapValue ==
    LET common == Cardinality(Words(sim.expected) \cap Words(sim.actual))
        words == Cardinality(Words(sim.expected))
        shorter == Min(Len(sim.expected), Len(sim.actual))
        longer == Max(Len(sim.expected), Len(sim.actual))
        value == Fraction(8 * common * longer + 2 * shorter * words,
                          10 * words * longer)
    IN IF value.num >= value.den THEN Fraction(1, 1) ELSE value

\* C18 (as stated): 1.0 when expected and actual are equal after case and
\* whitespace normalization; otherwise min(1, 0.8 * shared words / words of
\* expected + 0.2 * min(len) / max(len)).
C18_AsClaimed ==
    sim.called =>
        IF Normalized(sim.expected) = Normalized(sim.actual)
        THEN Same(SimValue, Fraction(1, 1))
        ELSE OverlapDefined /\ Same(SimValue, OverlapValue)

\* C18 (amended): as stated, and 0.0 when the strs differ after
\* normalization and expected has no words.
C18_SimilarityLaw ==
    sim.called =>
        IF Normalized(sim.expected) = Normalized(sim.actual)
        THEN Same(SimValue, Fraction(1, 1))
        ELSE IF ~OverlapDefined
        THEN Same(SimValue, Fraction(0, 1))
        ELSE Same(SimValue, OverlapValue)

\* The scorer was called on strs that differ after normalization and share
\* a word, and gave a value strictly between 0.8 and 1.
C18_Witness ==
    /\ sim.called
    /\ Normalized(sim.expected) # Normalized(sim.actual)
    /\ Words(sim.expected) \cap Words(sim.actual) # {}
    /\ SimValue.num * 10 > 8 * SimValue.den
    /\ SimValue.num < SimValue.den

\* ----------------------------------------------------------- prompt builder
\* C19 (as stated): the prompt built for Qualify, Score or message
\* generation has a slot for every optional attribute of the lead, holding
\* the attribute, or the literal "N/A" when the lead has none.
C19_AsClaimed ==
    (last.op \in LeadRequests /\ last.calls > 0) =>
        \A f \in OptionalFields :
            /\ f \in DOMAIN last.prompt
            /\ last.prompt[f] = IF last.before[f].t = "null" THEN "N/A"
                                ELSE last.before[f].s

\* ------------------------------------------------------- criterion requests
\* The request being answered is a delete of a criterion.
Deleting == last.op = "idle" /\ last'.op = "delete_scoring_criteria"

\* C20: criteria are only soft-deleted.  No request removes a criterion
\* row; the delete of an existing criterion sets its is_active to 0 and
\* changes nothing else; the delete of an id without a row fails with 404
\* and changes nothing.
C20_SoftDelete ==
    [][/\ \A c \in CriteriaRows : criteria[c].exists => criteria'[c].exists
       /\ Deleting =>
              IF last'.raised = ""
              THEN \E c \in CriteriaRows :
                      /\ criteria[c].exists
                      /\ criteria' = [criteria EXCEPT ![c].is_active = 0]
              ELSE /\ last'.raised = "HTTPException"
                   /\ last'.detail = "Scoring criteria not found"
                   /\ http_status(last') = 404
                   /\ criteria' = criteria]_vars

\* An active criterion was deleted: its row is there, inactive, with its
\* name, description, weight and rules.
C20_Witness ==
    /\ last.op = "delete_scoring_criteria"
    /\ last.raised = ""
    /\ \E c \in CriteriaRows :
           /\ criteria[c].exists
           /\ criteria[c].is_active = 0
           /\ criteria[c].name = "Company Size"
           /\ criteria[c].description # ""
           /\ criteria[c].criteria_rules # ""
           /\ criteria[c].weight = 30

\* The children of a lead in a table.
ChildrenOf(rows, lead_id) == {k \in 1..Len(rows) : rows[k].lead_id = lead_id}

\* Every row of the table belongs to a lead that exists.
Owned(rows) == \A k \in 1..Len(rows) : leads[rows[k].lead_id].exists

\* A request of the record endpoints is answered in this step.
Answers(op) == last = Idle /\ last'.op = op

\* C21: deleting a lead deletes all of its interactions and messages and
\* nothing of any other lead; over any sequence of create, delete, log and
\* generate requests every persisted interaction and message belongs to
\* one lead, and that lead exists.
C21_AsClaimed ==
    /\ [](Owned(interactions) /\ Owned(messages))
    /\ [][Answers("delete_lead") /\ last'.raised = "" =>
             LET lead_id == last'.lead_id
             IN /\ ~leads'[lead_id].exists
                /\ \A i \in LeadIds \ {lead_id} : leads'[i] = leads[i]
                /\ interactions' = Without(interactions, lead_id)
                /\ messages' = Without(messages, lead_id)
                /\ ChildrenOf(interactions', lead_id) = {}
                /\ ChildrenOf(messages', lead_id) = {}]_vars

\* C28: under every interleaving of generate_message with a delete_lead of
\* the same lead, no message is persisted whose lead_id refers to a lead
\* that does not exist.
C28_AsClaimed ==
    \A k \in 1..Len(messages) : leads[messages[k].lead_id].exists

\* No two leads hold the same address.
EmailUnique ==
    \A i, j \in LeadIds :
        leads[i].exists /\ leads[j].exists /\ leads[i].email = leads[j].email
            => i = j

\* C22: email is globally unique.  After any sequence of create_lead and
\* update_lead no two leads share an address; a create or an update that
\* would introduce a duplicate fails with IntegrityError and leaves every
\* lead as it was.
C22_EmailUnique ==
    /\ []EmailUnique
    /\ [][(Answers("create_lead") \/ Answers("update_lead")) =>
             /\ last'.raised = "IntegrityError" => leads' = leads
             /\ \A i \in LeadIds \ {last'.lead_id} : leads'[i] = leads[i]]_vars

\* An update to the address of the other lead was rejected: both leads are
\* there under their own addresses.
C22_Witness ==
    /\ last.op = "update_lead"
    /\ last.raised = "IntegrityError"
    /\ last.detail = "UNIQUE constraint failed: leads.email"
    /\ \A i \in LeadIds : leads[i].exists
    /\ EmailUnique

\* C30: get_pipeline_stats returns one count for each of the eight stages
\* and the counts sum to the number of leads: every lead is in exactly one
\* of the eight stages, a lead just created in stage new with score 0.0.
C30_AsClaimed ==
    /\ DOMAIN get_pipeline_stats = PipelineStage
    /\ Cardinality(PipelineStage) = 8
    /\ SumValues(get_pipeline_stats) = Cardinality({i \in LeadIds : leads[i].exists})
    /\ \A i \in LeadIds : leads[i].exists => leads[i].pipeline_stage \in PipelineStage
    /\ last.op = "create_lead" /\ last.raised = "" =>
           /\ leads[last.lead_id].pipeline_stage = "new"
           /\ leads[last.lead_id].lead_score = 0

\* C23: the Scoring Engine writes only score and stage.  A Qualify changes
\* nothing in the tables but lead_score and pipeline_stage of its lead, a
\* Score nothing but lead_score of its lead: no other lead, no other column,
\* no interaction, message, criterion or evaluation.
C23_EngineFrame ==
    [][Answers("qualify_lead") \/ Answers("score_lead") =>
          LET lead_id == last'.lead_id
          IN /\ criteria' = criteria
             /\ messages' = messages
             /\ interactions' = interactions
             /\ evaluations' = evaluations
             /\ \A i \in LeadIds \ {lead_id} : leads'[i] = leads[i]
             /\ leads'[lead_id] =
                    [leads[lead_id] EXCEPT
                        !.lead_score = leads'[lead_id].lead_score,
                        !.pipeline_stage =
                            IF last'.op = "qualify_lead"
                            THEN leads'[lead_id].pipeline_stage ELSE @]]_vars

\* A Qualify moved its lead to qualified with a score, next to another
\* lead, a criterion, an interaction and a message.
C23_Witness ==
    /\ last.op = "qualify_lead"
    /\ last.raised = ""
    /\ Target.pipeline_stage = "qualified"
    /\ Target.lead_score # 0
    /\ \E i \in LeadIds : i # last.lead_id /\ leads[i].exists
    /\ \E c \in CriteriaRows : criteria[c].exists
    /\ interactions # << >>
    /\ messages # << >>

\* C26: message generation has no fallback.  For a lead that exists and a
\* completion that succeeds, whatever its text, one message of that lead is
\* persisted, its content the text without the whitespace around it; score
\* and stage of the lead stay; a completion that fails persists no message.
C26_MessageVerbatim ==
    [][Answers("generate_message") =>
          /\ leads' = leads
          /\ last'.before.exists /\ last'.resp.ok <=> last'.raised = ""
          /\ IF last'.before.exists /\ last'.resp.ok
             THEN messages' = Append(messages,
                      [lead_id |-> last'.lead_id,
                       content |-> [last'.resp.content EXCEPT !.pad = FALSE]])
             ELSE messages' = messages]_vars

\* A padded JSON text was persisted, trimmed, as the one message of the
\* lead.
C26_Witness ==
    /\ last.op = "generate_message"
    /\ last.raised = ""
    /\ last.resp.content.fmt = "object"
    /\ last.resp.content.pad
    /\ Len(messages) = 1
    /\ messages[1].lead_id = last.lead_id
    /\ messages[1].content.fmt = "object"
    /\ ~messages[1].content.pad

\* C29: after any sequence of Qualify and Score on a new lead, whatever
\* numbers the completion returns, lead_score is within 0 to 10.
C29_AsClaimed ==
    \A i \in LeadIds :
        leads[i].exists => leads[i].lead_score >= 0 /\ leads[i].lead_score <= 100

\* The request being served is one of the three that call the completion
\* API.
Calling == last.op \in {"qualify_lead", "score_lead", "generate_message"}

\* C24: one completion call is one attempt.  A Qualify, Score or message
\* generation sends at most one completion request and an evaluation case
\* exactly one; a request that fails is not sent again: the operation ends
\* with the exception, the case with a failed record.
C24_OneAttempt ==
    /\ Calling =>
           /\ last.calls <= 1
           /\ last.calls = 1 /\ ~last.resp.ok =>
                  /\ last.raised = "Exception"
                  /\ last.detail = last.resp.error
                  /\ http_status(last) = 500
                  /\ last.ret = NoReturn
    /\ run.dispatched <= Len(run.test_cases)
    /\ run.pc = "awaiting" => run.dispatched = run.i
    /\ run.pc = "done" => run.dispatched = Len(run.test_cases)
    /\ Len(run.responses) = run.completed
    /\ \A k \in 1..Len(run.responses) :
           CaseFailed(k) =>
               /\ run.results[k].actual_output.marker = "ERROR: "
               /\ run.results[k].passed = Flag(0)

\* A Qualify ended with the exception of its one completion request, and a
\* batch of two is done after two requests, the first of which failed.
C24_Witness ==
    /\ last.op = "qualify_lead"
    /\ last.calls = 1
    /\ ~last.resp.ok
    /\ last.raised = "Exception"
    /\ run.pc = "done"
    /\ Len(run.test_cases) = 2
    /\ run.dispatched = 2
    /\ CaseFailed(1)
    /\ CaseSucceeded(2)

\* What the caller of the request being served observes had its completion
\* call failed for the cause of message msg.
Observed(msg) ==
    LET req == [last EXCEPT !.detail = msg]
    IN [status |-> http_status(req), detail |-> http_detail(req)]

\* C25: the three causes of a completion failure (upstream status, network
\* failure, unexpected local error) collapse to one observable failure: a
\* failing Qualify or Score shows its caller the same error whatever the
\* cause or the upstream status code.
C25_AsClaimed ==
    last.op \in {"qualify_lead", "score_lead"} /\ last.calls = 1 /\ ~last.resp.ok =>
        \A msg \in completion_errors : Observed(last.detail) = Observed(msg)

\* The criteria that were deactivated.
Inactive == {c \in CriteriaRows : criteria[c].exists /\ criteria[c].is_active = 0}

\* The rows of a name.
Named(table, name) == {c \in CriteriaRows : table[c].exists /\ table[c].name = name}

\* C27: deactivation of a criterion is permanent.  Once delete has set a
\* criterion inactive no put, create, create-defaults or Score makes it
\* active again, and no Score selects it; create-defaults adds no row of a
\* default's name while a row of that name exists, deactivated or not.
C27_DeactivationPermanent ==
    /\ [](last.op = "score_lead" =>
             \A k \in 1..Len(last.selected) : last.selected[k] \notin Inactive)
    /\ [][/\ \A c \in Inactive :
                 criteria'[c].exists /\ criteria'[c].is_active = 0
          /\ Answers("create_default_scoring_criteria") =>
                 \A k \in 1..Len(default_criteria) :
                     LET name == default_criteria[k].name
                     IN Named(criteria, name) # {} =>
                            Named(criteria', name) = Named(criteria, name)]_vars

\* The defaults were created while the one row named Company Size was
\* deactivated: it is still the only one of its name, and inactive, next to
\* the new rows of the other defaults.
C27_Witness ==
    /\ last.op = "create_default_scoring_criteria"
    /\ \E c \in Inactive : Named(criteria, "Company Size") = {c}
    /\ Named(criteria, "Industry Fit") # {}
    /\ \A c \in Named(criteria, "Industry Fit") : criteria[c].is_active = 1
====
